---- MODULE Spec2Model ----
(***************************************************************************)
(* Ticket workflow engine of erp_system (backend/server/src/ticket.rs):    *)
(* the step-firing engine (update_internal, execute_user_request,          *)
(* execute_completable) and the two orchestrator handlers (create_ticket,  *)
(* update_ticket) working on the tickets, user_active_tickets and          *)
(* notifications tables.                                                   *)
(***************************************************************************)
EXTENDS Integers, Sequences, FiniteSets, Bags, TLC

(***************************************************************************)
(* Bounds of the model.                                                    *)
(***************************************************************************)
\* number of handler invocations explored on the ticket
MaxOps == 3
\* number of update requests that may be in flight at the same time
MaxInFlight == 2

(***************************************************************************)
(* Process graphs (process.rs is read through read_process_data).          *)
(***************************************************************************)
NoArgs == "no_args"

Step(ev, req, nx, arg, cb) ==
    [event |-> ev, required |-> req, next |-> nx, args |-> arg, callbacks |-> cb]

\* node0=Initiate -> node1=Complete
initiate_test ==
    << Step("Initiate", {}, <<1>>, NoArgs, FALSE),
       Step("Complete", {0}, <<>>, NoArgs, FALSE) >>

\* node0=Initiate -> node1=Approve -> node2=Complete
approve_test ==
    << Step("Initiate", {}, <<1>>, NoArgs, FALSE),
       Step("Approve", {0}, <<2>>, "erp_admin", FALSE),
       Step("Complete", {1}, <<>>, NoArgs, FALSE) >>

\* node0=Initiate -> {node1=Approve, node2=Approve} -> node3=Approve -> node4
simple_branch_test ==
    << Step("Initiate", {}, <<1, 2>>, NoArgs, FALSE),
       Step("Approve", {0}, <<3>>, "erp_admin", FALSE),
       Step("Approve", {0}, <<3>>, "erp_admin", FALSE),
       Step("Approve", {1, 2}, <<4>>, "erp_admin", FALSE),
       Step("Complete", {3}, <<>>, NoArgs, FALSE) >>

\* two parallel approvals by different users, joined by a notification
two_user_branch ==
    << Step("Initiate", {}, <<1, 2>>, NoArgs, FALSE),
       Step("Approve", {0}, <<3>>, "alice", TRUE),
       Step("Approve", {0}, <<3>>, "erp_admin", FALSE),
       Step("Notify", {1, 2}, <<4>>, "alice", FALSE),
       Step("Complete", {3}, <<>>, NoArgs, FALSE) >>

\* a chain of external tasks: non-blocking, blocking, then a notification
task_chain ==
    << Step("Initiate", {}, <<1>>, NoArgs, FALSE),
       Step("NonBlockingTask", {0}, <<2>>, NoArgs, TRUE),
       Step("BlockingTask", {1}, <<3>>, NoArgs, TRUE),
       Step("Notify", {2}, <<4>>, "alice", TRUE),
       Step("Complete", {3}, <<>>, NoArgs, FALSE) >>

\* node 2 requires only node 0 and is listed as successor of nodes 0 and 1
shared_successor ==
    << Step("Initiate", {}, <<2, 1>>, NoArgs, FALSE),
       Step("Notify", {0}, <<3, 2>>, "alice", FALSE),
       Step("Notify", {0}, <<3>>, "erp_admin", FALSE),
       Step("Complete", {1, 2}, <<>>, NoArgs, FALSE) >>

\* an approval that fans out to a notification and a second approval
mixed_branch ==
    << Step("Initiate", {}, <<1>>, NoArgs, FALSE),
       Step("Approve", {0}, <<2, 3>>, "alice", FALSE),
       Step("Notify", {1}, <<4>>, "erp_admin", FALSE),
       Step("Approve", {1}, <<4>>, "erp_admin", FALSE),
       Step("Complete", {2, 3}, <<>>, NoArgs, FALSE) >>

\* an external task whose outcome opens an approval
blocking_gate ==
    << Step("Initiate", {}, <<1>>, NoArgs, FALSE),
       Step("BlockingTask", {0}, <<3, 2>>, NoArgs, TRUE),
       Step("Approve", {1}, <<3>>, "erp_admin", FALSE),
       Step("Complete", {1, 2}, <<>>, NoArgs, TRUE) >>

\* an approval that may close the ticket or hand over to a reviewer
optional_review ==
    << Step("Initiate", {}, <<1>>, NoArgs, FALSE),
       Step("Approve", {0}, <<3, 2>>, "alice", FALSE),
       Step("Approve", {1}, <<3>>, "erp_admin", FALSE),
       Step("Complete", {1, 2}, <<>>, NoArgs, FALSE) >>

\* a ticket that is only filed: the Initiate node has no successors
filing_only ==
    << Step("Initiate", {}, <<>>, NoArgs, FALSE),
       Step("Complete", {0}, <<>>, NoArgs, FALSE) >>

\* an approval whose notification asks for the approval again: the required
\* sets are acyclic (0 before 1 before 2 before 3), the next lists are not
rework_loop ==
    << Step("Initiate", {}, <<1>>, NoArgs, FALSE),
       Step("Approve", {0}, <<2>>, "alice", FALSE),
       Step("Notify", {1}, <<1, 3>>, "erp_admin", FALSE),
       Step("Complete", {2}, <<>>, NoArgs, FALSE) >>

\* n steps that wait for nobody: node 0 files the ticket, node 1 is the
\* Complete node, nodes 2 .. n-1 are approvals
Wide(n) ==
    [i \in 1 .. n |->
        IF i = 1 THEN Step("Initiate", {}, <<>>, NoArgs, FALSE)
        ELSE IF i = 2 THEN Step("Complete", {0}, <<>>, NoArgs, FALSE)
        ELSE Step("Approve", {0}, <<>>, "alice", FALSE)]

ProcessIds ==
    {"initiate_test", "approve_test", "simple_branch_test", "two_user_branch",
     "task_chain", "shared_successor", "mixed_branch", "blocking_gate",
     "optional_review", "filing_only"}

\* read_process_data(process_id): Ok(Process) for a known id, Err otherwise
read_process_data(process_id) ==
    CASE process_id = "initiate_test" -> [ok |-> TRUE, steps |-> initiate_test]
      [] process_id = "approve_test" -> [ok |-> TRUE, steps |-> approve_test]
      [] process_id = "simple_branch_test" -> [ok |-> TRUE, steps |-> simple_branch_test]
      [] process_id = "two_user_branch" -> [ok |-> TRUE, steps |-> two_user_branch]
      [] process_id = "task_chain" -> [ok |-> TRUE, steps |-> task_chain]
      [] process_id = "shared_successor" -> [ok |-> TRUE, steps |-> shared_successor]
      [] process_id = "mixed_branch" -> [ok |-> TRUE, steps |-> mixed_branch]
      [] process_id = "blocking_gate" -> [ok |-> TRUE, steps |-> blocking_gate]
      [] process_id = "optional_review" -> [ok |-> TRUE, steps |-> optional_review]
      [] process_id = "filing_only" -> [ok |-> TRUE, steps |-> filing_only]
      [] process_id = "rework_loop" -> [ok |-> TRUE, steps |-> rework_loop]
      [] process_id = "wide_31" -> [ok |-> TRUE, steps |-> Wide(31)]
      [] process_id = "wide_32" -> [ok |-> TRUE, steps |-> Wide(32)]
      [] process_id = "wide_33" -> [ok |-> TRUE, steps |-> Wide(33)]
      [] OTHER -> [ok |-> FALSE, steps |-> <<>>]

\* process.steps[node as usize]
StepAt(steps, node) == steps[node + 1]

\* the value of a `let` binding: The({e(x) : x \in {v}}) is e with x bound to v
The(S) == CHOOSE x \in S : TRUE

(***************************************************************************)
(* Completion mask (ticket.complete, an i32 used as a bit set).            *)
(***************************************************************************)
Pow2(k) == 2 ^ k

\* the least and the greatest i32
MinI32 == (0 - Pow2(30)) - Pow2(30)

MaxI32 == (Pow2(30) - 1) + Pow2(30)

\* bit k of a two's complement i32: bit 31 is the sign
IsSet(mask, k) == IF k = 31 THEN mask < 0 ELSE (mask \div Pow2(k)) % 2 = 1

\* 1 << k on i32 where the shift does not panic: the shift amount is taken
\* modulo 32, and 1 << 31 is the least i32
Shl(k) == IF k % 32 = 31 THEN MinI32 ELSE Pow2(k % 32)

\* `1 << k` overflows for k >= 32: a panic in a build with overflow checks,
\* the wrapped shift Shl(k) without them
ShiftOverflows(k) == k >= 32

\* mutant of SetBit: the bit next to the node's is set
SetBitAbove(mask, k) ==
    IF IsSet(mask, (k + 1) % 32) THEN mask ELSE mask + Shl(k + 1)

\* ticket.complete |= 1 << node
SetBit(mask, k) == IF IsSet(mask, k % 32) THEN mask ELSE mask + Shl(k)

\* utils::check_required_complete(complete, &required)
check_required_complete(complete, required) ==
    \A r \in required : IsSet(complete, r)

\* utils::check_n_complete(complete, n): every node before the last one
\* (index n-1, the Complete node) has its bit set
check_n_complete(complete, n) ==
    \A k \in 0 .. (n - 2) : IsSet(complete, k)

(***************************************************************************)
(* The engine: execute_user_request, execute_completable, update_internal. *)
(* An engine result carries, besides what the Rust functions return, the   *)
(* callbacks handed to send_task (sent), the nodes fired by the drain loop *)
(* (fired) and every push on completable_steps with the mask at that       *)
(* moment, the node whose loop over next_steps pushed it and whether that  *)
(* node was fired by execute_completable (enq).                            *)
(***************************************************************************)
NewUserTicket(type_, node, username) ==
    [type_ |-> type_, node |-> node, username |-> username]

NoUser == "none"

\* Completable with the Complete node gated by its own required set only
CompletableByRequired(steps, complete, step) ==
    check_required_complete(complete, StepAt(steps, step).required)

\* the gate of one successor in the loops over next_steps
Completable(steps, complete, step) ==
    LET next_job == StepAt(steps, step)
    IN  IF next_job.event = "Complete"
        THEN check_n_complete(complete, Len(steps))
        ELSE check_required_complete(complete, next_job.required)

\* for step in next_steps { ... result.completable_steps.push(step) }
CompletableSteps(steps, complete, next_steps) ==
    SelectSeq(next_steps, LAMBDA step : Completable(steps, complete, step))

Enqueued(completable_steps, complete, by, auto, turn) ==
    [i \in 1 .. Len(completable_steps) |->
        [node |-> completable_steps[i], complete |-> complete,
         by |-> by, auto |-> auto, turn |-> turn]]

\* events whose branch in execute_user_request sets the node's bit
UserSetsBit(event) == event \in {"Initiate", "Approve", "BlockingTask"}

\* events whose branch in execute_user_request evaluates args.unwrap()[0]
UserReadsArgs(event) == event \in {"Approve", "Notify", "Complete", "NonBlockingTask"}

\* current_job.is_not_blocking_task() and a non-empty callbacks list
UserDispatches(job) == job.event # "BlockingTask" /\ job.callbacks

\* process_data.steps[current_node as usize] panics for an index outside the
\* vector; a negative i32 becomes a usize above every length
OutOfBounds(steps, current_node) == current_node \notin 0 .. (Len(steps) - 1)

execute_user_request(steps, complete, current_node) ==
    IF OutOfBounds(steps, current_node)
    THEN [err |-> "Panic",
          complete |-> complete,
          status |-> "Open",
          new_ticket |-> <<>>,
          completable_steps |-> <<>>,
          sent |-> <<>>]
    ELSE
    LET current_job == StepAt(steps, current_node)
        event == current_job.event
        sent == IF UserDispatches(current_job) THEN <<current_node>> ELSE <<>>
        marked == IF UserSetsBit(event) THEN SetBit(complete, current_node) ELSE complete
        err == IF UserReadsArgs(event) /\ current_job.args = NoArgs THEN "Panic"
               ELSE IF UserSetsBit(event) THEN "Ok"
               ELSE "InvalidTicket"
        done == IF err = "Ok" THEN CompletableSteps(steps, marked, current_job.next)
                ELSE <<>>
    IN  [err |-> err,
         complete |-> marked,
         status |-> IF event = "Initiate" /\ current_job.next = <<>>
                    THEN "Closed" ELSE "Open",
         new_ticket |-> <<>>,
         completable_steps |-> done,
         sent |-> sent]

\* AutoSetsBit without the NonBlockingTask branch's `complete |=`
AutoSetsBitNotifyOnly(event) == event = "Notify"

\* AutoSetsBit with the Complete branch marking its own node as well
AutoSetsBitAlsoComplete(event) == event \in {"Notify", "NonBlockingTask", "Complete"}

\* events whose branch in execute_completable sets the node's bit
AutoSetsBit(event) == event \in {"Notify", "NonBlockingTask"}

\* AutoDispatches sending the callbacks of task nodes only
AutoDispatchesTasksOnly(job) ==
    job.event \in {"NonBlockingTask", "BlockingTask"} /\ job.callbacks

\* current_job.is_not_approve() and a non-empty callbacks list
AutoDispatches(job) == job.event # "Approve" /\ job.callbacks

\* AutoTicket whose ApproveRequest carries no username
AutoTicketNoTarget(job, current_node) ==
    CASE job.event = "Approve" ->
            <<NewUserTicket("ApproveRequest", current_node, NoUser)>>
      [] job.event = "Notify" ->
            <<NewUserTicket("Notify", current_node, job.args)>>
      [] job.event = "Complete" ->
            <<NewUserTicket("Completion", current_node, NoUser)>>
      [] OTHER -> <<>>

\* the NewUserTicket built by the event branch of execute_completable
AutoTicket(job, current_node) ==
    CASE job.event = "Approve" ->
            <<NewUserTicket("ApproveRequest", current_node, job.args)>>
      [] job.event = "Notify" ->
            <<NewUserTicket("Notify", current_node, job.args)>>
      [] job.event = "Complete" ->
            <<NewUserTicket("Completion", current_node, NoUser)>>
      [] OTHER -> <<>>

execute_completable(steps, complete, current_node) ==
    LET current_job == StepAt(steps, current_node)
        event == current_job.event
        sent == IF AutoDispatches(current_job) THEN <<current_node>> ELSE <<>>
        marked == IF AutoSetsBit(event) THEN SetBit(complete, current_node) ELSE complete
        err == IF event = "Initiate" THEN "InvalidEvent"
               ELSE IF event \in {"Approve", "Notify"} /\ current_job.args = NoArgs
                    THEN "Panic"
               ELSE "Ok"
        done == IF err = "Ok" /\ event # "Complete"
                THEN CompletableSteps(steps, marked, current_job.next)
                ELSE <<>>
    IN  [err |-> err,
         complete |-> marked,
         status |-> "Open",
         new_ticket |-> IF err = "Ok" THEN AutoTicket(current_job, current_node) ELSE <<>>,
         completable_steps |-> done,
         sent |-> sent]

\* mutant of DrainStep: the completable steps are pushed at the front of
\* the queue (a stack: depth-first)
DrainStepFront(acc, node, result) ==
    [err |-> result.err,
     complete |-> result.complete,
     node_queue |-> result.completable_steps \o Tail(acc.node_queue),
     ticket_queue |-> acc.ticket_queue \o result.new_ticket,
     sent |-> acc.sent \o result.sent,
     fired |-> Append(acc.fired, node),
     enq |-> acc.enq \o Enqueued(result.completable_steps, result.complete,
                                  node, TRUE, Len(acc.fired) + 1)]

\* one turn of the drain loop: the fired node leaves the queue, its
\* completable steps join it, its new ticket joins ticket_queue
DrainStep(acc, node, result) ==
    [err |-> result.err,
     complete |-> result.complete,
     node_queue |-> Tail(acc.node_queue) \o result.completable_steps,
     ticket_queue |-> acc.ticket_queue \o result.new_ticket,
     sent |-> acc.sent \o result.sent,
     fired |-> Append(acc.fired, node),
     enq |-> acc.enq \o Enqueued(result.completable_steps, result.complete,
                                  node, TRUE, Len(acc.fired) + 1)]

\* while let Some(node) = node_queue.pop_front() { ... }
RECURSIVE Drain(_, _)
Drain(steps, acc) ==
    IF acc.node_queue = <<>> \/ acc.err # "Ok" THEN acc
    ELSE The({Drain(steps, next) :
                next \in {DrainStep(acc, Head(acc.node_queue), result) :
                            result \in {execute_completable(steps, acc.complete,
                                                            Head(acc.node_queue))}}})

\* the queues of update_internal after execute_user_request
Seeded(result, node) ==
    [err |-> result.err,
     complete |-> result.complete,
     node_queue |-> result.completable_steps,
     ticket_queue |-> <<>>,
     sent |-> result.sent,
     fired |-> <<>>,
     enq |-> Enqueued(result.completable_steps, result.complete, node, FALSE, 0)]

\* `?` on an Err: the ticket_queue built so far is dropped
Returns(drained) ==
    IF drained.err = "Ok" THEN drained ELSE [drained EXCEPT !.ticket_queue = <<>>]

update_internal(process_id, complete, node) ==
    The({IF ~process_data.ok
         THEN [err |-> "FailedToReadProcessData", complete |-> complete,
               node_queue |-> <<>>, ticket_queue |-> <<>>, sent |-> <<>>,
               fired |-> <<>>, enq |-> <<>>]
         ELSE The({Returns(drained) :
                     drained \in {Drain(process_data.steps, seeded) :
                         seeded \in {Seeded(result, node) :
                             result \in {execute_user_request(process_data.steps,
                                                              complete, node)}}}})
         : process_data \in {read_process_data(process_id)}})

(***************************************************************************)
(* The store: tables tickets, user_active_tickets, notifications; users.   *)
(***************************************************************************)
Users == {"alice", "erp_admin"}

Keys == {"k1", "k2"}
Absent == "absent"

\* serde_json::Map over Keys; Map::new() is EmptyMap
EmptyMap == [k \in Keys |-> Absent]

\* Option<Map<String, Value>>: None, or Some(map)
NoData == [some |-> FALSE, map |-> EmptyMap]

SomeData(map) == [some |-> TRUE, map |-> map]

\* the bodies of CreateTicket.data explored
CreatePayloads == {NoData, SomeData([k \in Keys |-> "v2"])}

\* the body of UpdateTicket.data each user sends with an accepted update
DataOf(user_id) ==
    IF user_id = "erp_admin"
    THEN SomeData([k \in Keys |-> IF k = "k1" THEN "v1" ELSE Absent])
    ELSE NoData

\* mutant of Append_: a key the state already has keeps its value
AppendNew(new_state, data) ==
    [k \in Keys |-> IF new_state[k] # Absent THEN new_state[k] ELSE data[k]]

\* new_state.append(&mut data): every key of data overwrites new_state
Append_(new_state, data) ==
    [k \in Keys |-> IF data[k] # Absent THEN data[k] ELSE new_state[k]]

\* match payload.data.clone() { Some(mut data) => append, None => {} }
MergeState(state, data) ==
    IF data.some THEN Append_(state, data.map) ELSE state

\* payload.data.clone().unwrap_or_default()
InitialState(data) == IF data.some THEN data.map ELSE EmptyMap

NoTicket ==
    [exists |-> FALSE, process_id |-> "none", owner_id |-> NoUser,
     status |-> "none", complete |-> 0, state |-> EmptyMap]

Row(userid, node_number, type_, active) ==
    [userid |-> userid, node_number |-> node_number, type_ |-> type_, active |-> active]

\* update user_active_tickets set active=false where ticketid=$1 and userid=$2
DeactivateUser(rows, userid) ==
    [i \in 1 .. Len(rows) |->
        IF rows[i].userid = userid THEN [rows[i] EXCEPT !.active = FALSE] ELSE rows[i]]

\* update user_active_tickets set active=false where ticketid=$1
DeactivateAll(rows) ==
    [i \in 1 .. Len(rows) |-> [rows[i] EXCEPT !.active = FALSE]]

\* the statements of create_ticket that can fail (each returns 500, dropping tx)
CreateFailPoints ==
    {"none", "insert_ticket", "insert_own", "lookup", "insert", "completion",
     "update_tickets", "commit"}

\* the statements of update_ticket that can fail (each returns 500, dropping tx)
UpdateFailPoints ==
    {"none", "deactivate", "reject", "lookup", "insert", "completion",
     "update_tickets", "commit"}

\* the committed tables as one value
Tables(row, uat, notifs) == [ticket |-> row, uat |-> uat, notifs |-> notifs]

\* a transaction in progress: the handler's local `ticket`, and the tables as
\* the transaction sees them
Tx(ok, ticket, row, uat, notifs) ==
    [ok |-> ok, ticket |-> ticket, row |-> row, uat |-> uat, notifs |-> notifs]

\* PersistTicket with a Notify materialised as a user_active_tickets row
PersistTicketNotifyRow(tx, new_ticket, fail) ==
    CASE new_ticket.type_ \in {"ApproveRequest", "Notify"} ->
            IF fail \in {"lookup", "insert"} \/ new_ticket.username \notin Users
            THEN [tx EXCEPT !.ok = FALSE]
            ELSE [tx EXCEPT !.uat = Append(@, Row(new_ticket.username, new_ticket.node,
                                                   "approve", TRUE))]
      [] OTHER ->
            IF fail = "completion"
            THEN [tx EXCEPT !.ok = FALSE]
            ELSE [tx EXCEPT !.uat = DeactivateAll(@), !.ticket.status = "closed"]

\* PersistTicket whose Completion arm lacks `ticket.status = "closed"`
PersistTicketKeepsOpen(tx, new_ticket, fail) ==
    CASE new_ticket.type_ = "ApproveRequest" ->
            IF fail \in {"lookup", "insert"} \/ new_ticket.username \notin Users
            THEN [tx EXCEPT !.ok = FALSE]
            ELSE [tx EXCEPT !.uat = Append(@, Row(new_ticket.username, new_ticket.node,
                                                   "approve", TRUE))]
      [] new_ticket.type_ = "Notify" ->
            IF fail \in {"lookup", "insert"}
            THEN [tx EXCEPT !.ok = FALSE]
            ELSE [tx EXCEPT !.notifs = Append(@, new_ticket.username)]
      [] OTHER ->
            IF fail = "completion"
            THEN [tx EXCEPT !.ok = FALSE]
            ELSE [tx EXCEPT !.uat = DeactivateAll(@)]

\* one arm of `match new_ticket.type_` in create_ticket / update_ticket
PersistTicket(tx, new_ticket, fail) ==
    CASE new_ticket.type_ = "ApproveRequest" ->
            IF fail \in {"lookup", "insert"} \/ new_ticket.username \notin Users
            THEN [tx EXCEPT !.ok = FALSE]
            ELSE [tx EXCEPT !.uat = Append(@, Row(new_ticket.username, new_ticket.node,
                                                   "approve", TRUE))]
      [] new_ticket.type_ = "Notify" ->
            IF fail \in {"lookup", "insert"}
            THEN [tx EXCEPT !.ok = FALSE]
            ELSE [tx EXCEPT !.notifs = Append(@, new_ticket.username)]
      [] OTHER ->
            IF fail = "completion"
            THEN [tx EXCEPT !.ok = FALSE]
            ELSE [tx EXCEPT !.uat = DeactivateAll(@), !.ticket.status = "closed"]

\* for new_ticket in result.unwrap() { match new_ticket.type_ ... }
RECURSIVE PersistTickets(_, _, _)
PersistTickets(tx, ticket_queue, fail) ==
    IF ticket_queue = <<>> \/ ~tx.ok THEN tx
    ELSE The({PersistTickets(next, Tail(ticket_queue), fail) :
                next \in {PersistTicket(tx, Head(ticket_queue), fail)}})

\* update tickets set status=$1, complete=$2, updated_at=$3 [, state=$4]
\* mutant of WriteTicket: the mask is not written back
WriteTicketStatus(tx, with_state, fail) ==
    IF ~tx.ok \/ fail = "update_tickets" THEN [tx EXCEPT !.ok = FALSE]
    ELSE [tx EXCEPT !.row.status = tx.ticket.status,
                    !.row.state = IF with_state THEN tx.ticket.state ELSE @]

WriteTicket(tx, with_state, fail) ==
    IF ~tx.ok \/ fail = "update_tickets" THEN [tx EXCEPT !.ok = FALSE]
    ELSE [tx EXCEPT !.row.status = tx.ticket.status,
                    !.row.complete = tx.ticket.complete,
                    !.row.state = IF with_state THEN tx.ticket.state ELSE @]

\* tx.commit().await
Commit(tx, fail) ==
    IF ~tx.ok \/ fail = "commit" THEN [tx EXCEPT !.ok = FALSE] ELSE tx

\* EndTx for statements run on the pool instead of tx: nothing is rolled back
EndTxOnPool(before, tx) == Tables(tx.row, tx.uat, tx.notifs)

\* the transaction ends: a commit publishes what it wrote, an early return
\* drops tx and rolls back
EndTx(before, tx) ==
    IF tx.ok THEN Tables(tx.row, tx.uat, tx.notifs) ELSE before

\* the engine did not run
NoEngine ==
    [err |-> "NotRun", complete |-> 0, node_queue |-> <<>>, ticket_queue |-> <<>>,
     sent |-> <<>>, fired |-> <<>>, enq |-> <<>>]

UpdateTicket(user_id, status, node, data) ==
    [user_id |-> user_id, status |-> status, node |-> node, data |-> data]

\* what the client receives: the handler's Ok code after the commit; 500 from
\* every `return Err(StatusCode::INTERNAL_SERVER_ERROR)`, the one taken for an
\* Err of update_internal included; nothing when unwrap() panicked in the engine
Answer(committed, engine, ok_code) ==
    IF committed THEN ok_code
    ELSE IF engine.err = "Panic" THEN "NO_RESPONSE"
    ELSE "INTERNAL_SERVER_ERROR"

(***************************************************************************)
(* create_ticket, from pool.begin() to the commit.                         *)
(***************************************************************************)
\* the row inserted by `insert into tickets`
NewRow(process_id, payload) ==
    [exists |-> TRUE, process_id |-> process_id, owner_id |-> payload.user_id,
     status |-> "open", complete |-> 0, state |-> InitialState(payload.data)]

\* the statements after update_internal: persist the new user tickets, write
\* the ticket, commit
CreatePersist(before, row, payload, engine, fail) ==
    The({[tables |-> EndTx(before, tx),
          committed |-> tx.ok,
          code |-> Answer(tx.ok, engine, "CREATED"),
          ticket |-> row,
          engine |-> engine]
         : tx \in {Commit(WriteTicket(PersistTickets(
                      Tx(engine.err = "Ok",
                         [row EXCEPT !.complete = engine.complete],
                         row,
                         <<Row(payload.user_id, 0, "own", TRUE)>>,
                         before.notifs),
                      engine.ticket_queue, fail), FALSE, fail), fail)}})

create_ticket(before, process_id, payload, fail) ==
    The({CreatePersist(before, row, payload, engine, fail) :
            row \in {NewRow(process_id, payload)},
            engine \in {IF fail \in {"insert_ticket", "insert_own"} THEN NoEngine
                        ELSE update_internal(process_id, 0, 0)}})

(***************************************************************************)
(* update_ticket after the ticket was loaded: `ticket` is the row as it    *)
(* was read by `select * from tickets where id=$1` on the pool.            *)
(***************************************************************************)
\* Forbidden comparing with the other terminal status
ForbiddenIfRejected(ticket) == ticket.status = "rejected"

\* if ticket.status == "closed" { return Err(StatusCode::FORBIDDEN) }
Forbidden(ticket) == ticket.status = "closed"

\* RejectTicket without the second `update user_active_tickets`
RejectTicketKeepsRows(tx, fail) ==
    IF ~tx.ok \/ fail = "reject" THEN [tx EXCEPT !.ok = FALSE]
    ELSE [tx EXCEPT !.row.status = "rejected"]

\* if !payload.status { ... }: the ticket is rejected, all its rows deactivated
RejectTicket(tx, fail) ==
    IF ~tx.ok \/ fail = "reject" THEN [tx EXCEPT !.ok = FALSE]
    ELSE [tx EXCEPT !.row.status = "rejected", !.uat = DeactivateAll(@)]

\* else { ... }: merge the payload, advance, persist the new user tickets and
\* write the ticket
AcceptTicket(tx, payload, engine, fail) ==
    WriteTicket(PersistTickets([tx EXCEPT !.ok = @ /\ engine.err = "Ok",
                                          !.ticket.state = MergeState(@, payload.data),
                                          !.ticket.complete = engine.complete],
                               engine.ticket_queue, fail),
                TRUE, fail)

\* the statements after `update user_active_tickets ... and userid=$2`
\* mutant of UpdatePersist: the callbacks are handed to send_task only once
\* the transaction has committed
UpdatePersistThenSend(before, tx0, payload, engine, fail) ==
    The({[tables |-> EndTx(before, tx),
          committed |-> tx.ok,
          code |-> Answer(tx.ok, engine, "ACCEPTED"),
          ticket |-> tx0.ticket,
          engine |-> IF tx.ok THEN engine ELSE [engine EXCEPT !.sent = <<>>]]
         : tx \in {Commit(IF payload.status
                          THEN AcceptTicket(tx0, payload, engine, fail)
                          ELSE RejectTicket(tx0, fail),
                          fail)}})

UpdatePersist(before, tx0, payload, engine, fail) ==
    The({[tables |-> EndTx(before, tx),
          committed |-> tx.ok,
          code |-> Answer(tx.ok, engine, "ACCEPTED"),
          ticket |-> tx0.ticket,
          engine |-> engine]
         : tx \in {Commit(IF payload.status
                          THEN AcceptTicket(tx0, payload, engine, fail)
                          ELSE RejectTicket(tx0, fail),
                          fail)}})

\* update_ticket from the load of the ticket on; `advanced` is what
\* update_internal returns for the loaded ticket and the request (it reads
\* nothing else, so it is the same at whichever statement the handler fails)
update_ticket_from(before, ticket, payload, advanced, fail) ==
    The({UpdatePersist(before, tx0, payload, engine, fail) :
            tx0 \in {Tx(fail # "deactivate", ticket, before.ticket,
                        DeactivateUser(before.uat, payload.user_id), before.notifs)},
            engine \in {IF fail # "deactivate" /\ payload.status
                        THEN advanced
                        ELSE NoEngine}})

update_ticket(before, ticket, payload, fail) ==
    The({update_ticket_from(before, ticket, payload, advanced, fail) :
            advanced \in {IF payload.status
                          THEN update_internal(ticket.process_id, ticket.complete,
                                               payload.node)
                          ELSE NoEngine}})

(***************************************************************************)
(* State.                                                                  *)
(***************************************************************************)
VARIABLES
    tickets,              \* the row of the ticket in table tickets, or NoTicket
    user_active_tickets,  \* the rows of table user_active_tickets, in insert order
    notifications,        \* the rows of table notifications (the notified user)
    inflight,             \* bag of update_ticket calls that loaded the ticket and hold a tx
    nops,                 \* handler invocations started so far
    last,                 \* the handler invocation that returned last
    drain,                \* one advancement run turn by turn (EngineSpec)
    asked                 \* the requests answered and awaited (ProgressSpec)

vars == <<tickets, user_active_tickets, notifications, inflight, nops, last,
          drain, asked>>

Committed == Tables(tickets, user_active_tickets, notifications)

NoRequest == UpdateTicket(NoUser, FALSE, 0, NoData)

Returned(op, code, request, ticket, before, engine, committed, pinged) ==
    [op |-> op, code |-> code, request |-> request, ticket |-> ticket,
     before |-> before, engine |-> engine, committed |-> committed,
     pinged |-> pinged]

\* an advancement: the ticket's process, the build, the originating node, the
\* mask it started from, the mask now, the pending queue, the error if any
Advancement(phase, process_id, build, node, start) ==
    [phase |-> phase, process_id |-> process_id, build |-> build, node |-> node,
     start |-> start, complete |-> start, node_queue |-> <<>>, err |-> "Ok"]

NoDrain == Advancement("none", "none", "release", 0, 0)

\* the rows of user_active_tickets whose approval was given, and the
\* BlockingTask nodes whose callbacks have still to come back
Asked(answered, awaiting) == [answered |-> answered, awaiting |-> awaiting]

Init ==
    /\ drain = NoDrain
    /\ asked = Asked({}, {})
    /\ tickets = NoTicket
    /\ user_active_tickets = <<>>
    /\ notifications = <<>>
    /\ inflight = EmptyBag
    /\ nops = 0
    /\ last = Returned("none", "none", NoRequest, NoTicket,
                       Tables(NoTicket, <<>>, <<>>), NoEngine, FALSE, "no")

\* mutant of ping_notifier: the ping is sent before the commit is known to
\* have succeeded, and a failed ping fails the request
ping_notifier_strict(committed, code, ping_ok) ==
    [pinged |-> IF ping_ok THEN "ok" ELSE "failed",
     code   |-> IF ping_ok THEN code ELSE "INTERNAL_SERVER_ERROR"]

\* create_ticket after tx.commit(): ping_notifier(Ping::CollectNew, None) is
\* reached only when the commit succeeded; its failure is logged and the
\* answer stays what it was
ping_notifier(committed, code, ping_ok) ==
    [pinged |-> IF ~committed THEN "no" ELSE IF ping_ok THEN "ok" ELSE "failed",
     code   |-> code]

\* POST /ticket: create_ticket runs to its return; the ping follows the commit
CreateTicket(process_id, owner_id, data, fail, ping_ok) ==
    /\ nops < MaxOps
    /\ ~tickets.exists
    /\ \E out \in {create_ticket(Committed, process_id,
                                 UpdateTicket(owner_id, TRUE, 0, data), fail)} :
           /\ tickets' = out.tables.ticket
           /\ user_active_tickets' = out.tables.uat
           /\ notifications' = out.tables.notifs
           /\ \E ping \in {ping_notifier(out.committed, out.code, ping_ok)} :
                 last' = Returned("create", ping.code,
                                  UpdateTicket(owner_id, TRUE, 0, data),
                                  out.ticket, Committed, out.engine,
                                  out.committed, ping.pinged)
    /\ nops' = nops + 1
    /\ UNCHANGED <<inflight, drain, asked>>

\* PUT /ticket, first part: begin a transaction and load the ticket from the
\* pool; a missing ticket returns 500, a closed one 403
UpdateBegin(payload) ==
    /\ nops < MaxOps
    /\ BagCardinality(inflight) < MaxInFlight
    /\ nops' = nops + 1
    /\ IF ~tickets.exists \/ Forbidden(tickets)
       THEN /\ last' = Returned("update",
                                IF tickets.exists THEN "FORBIDDEN"
                                ELSE "INTERNAL_SERVER_ERROR",
                                payload, tickets, Committed, NoEngine, FALSE, "no")
            /\ UNCHANGED inflight
       ELSE /\ inflight' = inflight (+) SetToBag({[payload |-> payload,
                                                      ticket |-> tickets]})
            /\ UNCHANGED last
    /\ UNCHANGED <<tickets, user_active_tickets, notifications, drain, asked>>

\* PUT /ticket, second part: the statements of the transaction up to the
\* commit or the first failure
UpdateFinish(r) ==
    /\ BagIn(r, inflight)
    /\ \E advanced \in {IF r.payload.status
                         THEN update_internal(r.ticket.process_id, r.ticket.complete,
                                              r.payload.node)
                         ELSE NoEngine} :
       \E fail \in UpdateFailPoints :
       \E out \in {update_ticket_from(Committed, r.ticket, r.payload, advanced, fail)} :
           /\ tickets' = out.tables.ticket
           /\ user_active_tickets' = out.tables.uat
           /\ notifications' = out.tables.notifs
           /\ last' = Returned("update", out.code, r.payload, r.ticket, Committed,
                               out.engine, out.committed, "no")
    /\ inflight' = inflight (-) SetToBag({r})
    /\ UNCHANGED <<nops, drain, asked>>

\* the nodes of the graph of the ticket in the store
Nodes ==
    IF tickets.exists
    THEN 0 .. (Len(read_process_data(tickets.process_id).steps) - 1)
    ELSE {0}

\* the field is an i32 the handler does not validate: the index below the
\* first node and the one past the last
StrayNodes ==
    IF tickets.exists
    THEN {0 - 1, Len(read_process_data(tickets.process_id).steps)}
    ELSE {}

\* the owners that create tickets
Owners == {"alice"}

\* the requests sent to PUT /ticket: a rejection reads neither node nor data
UpdateRequests ==
    {UpdateTicket(user_id, FALSE, 0, NoData) : user_id \in Users}
    \cup {UpdateTicket(user_id, TRUE, node, DataOf(user_id)) :
            user_id \in Users, node \in Nodes}
    \cup {UpdateTicket(user_id, TRUE, node, DataOf(user_id)) :
            user_id \in Owners, node \in StrayNodes}

Next ==
    \/ \E process_id \in ProcessIds \cup {"unknown"}, owner_id \in Owners,
          data \in CreatePayloads, fail \in CreateFailPoints, ping_ok \in BOOLEAN :
            CreateTicket(process_id, owner_id, data, fail, ping_ok)
    \/ \E payload \in UpdateRequests : UpdateBegin(payload)
    \/ \E r \in BagToSet(inflight) : UpdateFinish(r)

Spec == Init /\ [][Next]_vars

(***************************************************************************)
(* The engine alone: one advancement, from execute_user_request through    *)
(* the turns of update_internal's drain loop to its return, on any process *)
(* (among them one whose next lists form a cycle and three with 31 to 33   *)
(* steps), from any mask and any originating node. Only the mask and the   *)
(* queue are kept, so that a loop that never ends is a cycle of states.    *)
(***************************************************************************)
EngineProcessIds == ProcessIds \cup {"rework_loop", "wide_31", "wide_32", "wide_33"}

WideProcessIds == {"wide_31", "wide_32", "wide_33"}

\* the builds of the server: with and without overflow checks
Builds == {"debug", "release"}

StepsOf(process_id) == read_process_data(process_id).steps

\* the originating nodes tried: every node, for the wide processes the first
\* and the last ones
EngineNodes(process_id) ==
    IF process_id \in WideProcessIds
    THEN {0, 2, 29, 30, 31, 32} \cap (0 .. (Len(StepsOf(process_id)) - 1))
    ELSE 0 .. (Len(StepsOf(process_id)) - 1)

\* the bits of the nodes of a wide process that set one: all but node 1
AllApproved(n) ==
    IF n >= 32 THEN (MinI32 + MaxI32) - 2 ELSE (Pow2(n - 1) - 3) + Pow2(n - 1)

\* the masks an advancement starts from: every mask over the nodes; for the
\* wide processes the filed ticket and the one with every approval given
StartMasks(process_id) ==
    IF process_id \in WideProcessIds
    THEN {1, 1 + Pow2(29), AllApproved(Len(StepsOf(process_id)))}
    ELSE 0 .. (Pow2(Len(StepsOf(process_id))) - 1)

EngineInit ==
    /\ asked = Asked({}, {})
    /\ tickets = NoTicket
    /\ user_active_tickets = <<>>
    /\ notifications = <<>>
    /\ inflight = EmptyBag
    /\ nops = 0
    /\ last = Returned("none", "none", NoRequest, NoTicket,
                       Tables(NoTicket, <<>>, <<>>), NoEngine, FALSE, "no")
    /\ \E process_id \in EngineProcessIds, build \in Builds :
          \E node \in EngineNodes(process_id), start \in StartMasks(process_id) :
             drain = Advancement("request", process_id, build, node, start)

\* let result = execute_user_request(ticket, request.node, ..).await?;
\* node_queue.extend(result.completable_steps.iter());
UserStep ==
    /\ drain.phase = "request"
    /\ IF /\ drain.build = "debug" /\ ShiftOverflows(drain.node)
          /\ UserSetsBit(StepAt(StepsOf(drain.process_id), drain.node).event)
       THEN drain' = [drain EXCEPT !.phase = "drain", !.err = "Panic"]
       ELSE \E result \in {execute_user_request(StepsOf(drain.process_id),
                                                 drain.complete, drain.node)} :
               drain' = [drain EXCEPT !.phase = "drain",
                                      !.complete = result.complete,
                                      !.node_queue = result.completable_steps,
                                      !.err = result.err]
    /\ UNCHANGED <<tickets, user_active_tickets, notifications, inflight, nops, last,
                   asked>>

\* the queues of one turn of the loop, the outputs left out
Pending(d) ==
    [err |-> d.err, complete |-> d.complete, node_queue |-> d.node_queue,
     ticket_queue |-> <<>>, sent |-> <<>>, fired |-> <<>>, enq |-> <<>>]

\* while let Some(node) = node_queue.pop_front() { .. }: one turn
DrainTurn ==
    /\ drain.phase = "drain" /\ drain.err = "Ok" /\ drain.node_queue # <<>>
    /\ \E next \in {DrainStep(Pending(drain), Head(drain.node_queue),
                               execute_completable(StepsOf(drain.process_id),
                                                   drain.complete,
                                                   Head(drain.node_queue)))} :
          drain' = [drain EXCEPT !.complete = next.complete,
                                 !.node_queue = next.node_queue,
                                 !.err = next.err]
    /\ UNCHANGED <<tickets, user_active_tickets, notifications, inflight, nops, last,
                   asked>>

EngineNext == UserStep \/ DrainTurn

\* the handler is one task that runs to its return: a step that can be taken
\* is taken
EngineSpec ==
    EngineInit /\ [][EngineNext]_vars /\ WF_vars(UserStep) /\ WF_vars(DrainTurn)

(***************************************************************************)
(* The life of one ticket when nobody refuses and nothing fails: the owner *)
(* creates it, every ApproveRequest row is answered once by an accepted    *)
(* update of its user at its node, and the callbacks of every auto-fired   *)
(* BlockingTask node come back once with an update at that node. Updates   *)
(* run concurrently, as in Spec.                                           *)
(***************************************************************************)
\* required and next agree, every node is reached and leads on
WellFormed(steps) ==
    LET nodes == 0 .. (Len(steps) - 1)
        Next_(p) == {StepAt(steps, p).next[i] : i \in 1 .. Len(StepAt(steps, p).next)}
    IN  /\ \A p \in nodes : Next_(p) \subseteq nodes /\ StepAt(steps, p).required \subseteq nodes
        /\ \A p \in nodes : (StepAt(steps, p).event = "Initiate") <=> (p = 0)
        /\ \A p \in nodes : (StepAt(steps, p).event = "Complete") <=> (Next_(p) = {})
        /\ \A p \in nodes : \A s \in Next_(p) : p \in StepAt(steps, s).required
        /\ \A s \in nodes : \A r \in StepAt(steps, s).required : s \in Next_(r)
        /\ \A s \in nodes \ {0} : StepAt(steps, s).required # {}
        /\ \A s \in nodes : \A r \in StepAt(steps, s).required : r < s

ProgressProcessIds == {process_id \in ProcessIds : WellFormed(StepsOf(process_id))}

\* the user id the callback fabric sends with its update
CallbackUser == "callbacks"

\* the BlockingTask nodes among the nodes an advancement fired
Awaited(process_id, engine) ==
    {engine.fired[i] : i \in 1 .. Len(engine.fired)}
      \cap {k \in 0 .. (Len(StepsOf(process_id)) - 1) :
               StepAt(StepsOf(process_id), k).event = "BlockingTask"}

\* POST /ticket by the owner
Create(process_id, data, ping_ok) ==
    /\ ~tickets.exists
    /\ \E out \in {create_ticket(Committed, process_id,
                                 UpdateTicket("alice", TRUE, 0, data), "none")} :
           /\ tickets' = out.tables.ticket
           /\ user_active_tickets' = out.tables.uat
           /\ notifications' = out.tables.notifs
           /\ \E ping \in {ping_notifier(out.committed, out.code, ping_ok)} :
                 last' = Returned("create", ping.code,
                                  UpdateTicket("alice", TRUE, 0, data), out.ticket,
                                  Committed, out.engine, out.committed, ping.pinged)
           /\ asked' = Asked({}, Awaited(process_id, out.engine))
    /\ UNCHANGED <<inflight, nops, drain>>

\* PUT /ticket begins: the ticket is loaded (a closed one is refused)
Begin(payload) ==
    IF Forbidden(tickets)
    THEN /\ last' = Returned("update", "FORBIDDEN", payload, tickets, Committed,
                             NoEngine, FALSE, "no")
         /\ UNCHANGED inflight
    ELSE /\ inflight' = inflight (+) SetToBag({[payload |-> payload,
                                                  ticket |-> tickets]})
         /\ UNCHANGED last

\* the user of an ApproveRequest row approves at the row's node
Answer_(i) ==
    /\ i \in 1 .. Len(user_active_tickets)
    /\ user_active_tickets[i].type_ = "approve"
    /\ i \notin asked.answered
    /\ BagCardinality(inflight) < MaxInFlight
    /\ Begin(UpdateTicket(user_active_tickets[i].userid, TRUE,
                          user_active_tickets[i].node_number,
                          DataOf(user_active_tickets[i].userid)))
    /\ asked' = [asked EXCEPT !.answered = @ \cup {i}]
    /\ UNCHANGED <<tickets, user_active_tickets, notifications, nops, drain>>

\* the callbacks of a BlockingTask node come back
Reenter(node) ==
    /\ node \in asked.awaiting
    /\ BagCardinality(inflight) < MaxInFlight
    /\ Begin(UpdateTicket(CallbackUser, TRUE, node, NoData))
    /\ asked' = [asked EXCEPT !.awaiting = @ \ {node}]
    /\ UNCHANGED <<tickets, user_active_tickets, notifications, nops, drain>>

\* PUT /ticket runs to its commit
Finish(r) ==
    /\ BagIn(r, inflight)
    /\ \E out \in {update_ticket(Committed, r.ticket, r.payload, "none")} :
           /\ tickets' = out.tables.ticket
           /\ user_active_tickets' = out.tables.uat
           /\ notifications' = out.tables.notifs
           /\ last' = Returned("update", out.code, r.payload, r.ticket, Committed,
                               out.engine, out.committed, "no")
           /\ asked' = [asked EXCEPT !.awaiting =
                            @ \cup Awaited(r.ticket.process_id, out.engine)]
    /\ inflight' = inflight (-) SetToBag({r})
    /\ UNCHANGED <<nops, drain>>

Creates ==
    \E process_id \in ProgressProcessIds, data \in CreatePayloads, ping_ok \in BOOLEAN :
        Create(process_id, data, ping_ok)

Answers == \E i \in 1 .. Len(user_active_tickets) : Answer_(i)

Reenters == \E node \in asked.awaiting : Reenter(node)

Finishes == \E r \in BagToSet(inflight) : Finish(r)

ProgressNext == Creates \/ Answers \/ Reenters \/ Finishes

\* every request emitted is answered and every handler runs to its end
ProgressSpec ==
    /\ Init /\ [][ProgressNext]_vars
    /\ WF_vars(Creates) /\ WF_vars(Answers) /\ WF_vars(Reenters) /\ WF_vars(Finishes)

(***************************************************************************)
(* The engine of src/backend/src/ticket.rs, the one the server's engine    *)
(* was written from: events are strings looked up in a map of four, the    *)
(* steps are called jobs, a successor is gated by its required set only,   *)
(* and a Complete node fired by the loop sets its own bit. One advancement *)
(* is run turn by turn, from any mask and node of the small processes.     *)
(***************************************************************************)
\* get_event_map(): the events the engine knows
LegacyEvents == {"Initiate", "Approve", "Notify", "Complete"}

\* for step in next_steps { if check_required_complete(..) { push(step) } }
legacy_completable_steps(jobs, complete, next_steps) ==
    SelectSeq(next_steps,
              LAMBDA step : check_required_complete(complete, StepAt(jobs, step).required))

\* execute_user_request: process_map.get(..).unwrap() panics for an event
\* outside the map, the Notify arm ends in todo!(), the Complete arm is refused
legacy_execute_user_request(jobs, complete, current_node) ==
    LET current_job == StepAt(jobs, current_node)
        event == current_job.event
        marked == IF event \in {"Initiate", "Notify", "Approve"}
                  THEN SetBit(complete, current_node) ELSE complete
        err == IF event \notin LegacyEvents \/ event = "Notify" THEN "Panic"
               ELSE IF event = "Complete" THEN "InvalidTicket"
               ELSE "Ok"
    IN  [err |-> err,
         complete |-> marked,
         new_ticket |-> <<>>,
         completable_steps |-> IF err = "Ok"
                               THEN legacy_completable_steps(jobs, marked,
                                                             current_job.next)
                               ELSE <<>>]

\* legacy_auto_sets_bit as in the server's engine, where no arm of the loop's
\* Complete branch touches the mask
legacy_auto_sets_bit_never(event) == FALSE

\* the arm of execute_completable that sets the node's bit: Event::Complete
legacy_auto_sets_bit(event) == event = "Complete"

\* execute_completable: no arm returns early but Initiate's
legacy_execute_completable(jobs, complete, current_node) ==
    LET current_job == StepAt(jobs, current_node)
        event == current_job.event
        marked == IF legacy_auto_sets_bit(event)
                  THEN SetBit(complete, current_node) ELSE complete
        err == IF event \notin LegacyEvents THEN "Panic"
               ELSE IF event = "Initiate" THEN "InvalidEvent"
               ELSE IF event \in {"Approve", "Notify"} /\ current_job.args = NoArgs
                    THEN "Panic"
               ELSE "Ok"
    IN  [err |-> err,
         complete |-> marked,
         new_ticket |-> IF err = "Ok" THEN AutoTicket(current_job, current_node)
                        ELSE <<>>,
         completable_steps |-> IF err = "Ok"
                               THEN legacy_completable_steps(jobs, marked,
                                                             current_job.next)
                               ELSE <<>>]

\* update_internal's locals: the ticket's mask, node_queue, ticket_queue
LegacyAdvancement(process_id, node, start) ==
    [phase |-> "request", process_id |-> process_id, node |-> node, start |-> start,
     complete |-> start, node_queue |-> <<>>, ticket_queue |-> <<>>, err |-> "Ok"]

LegacyInit ==
    /\ asked = Asked({}, {})
    /\ tickets = NoTicket
    /\ user_active_tickets = <<>>
    /\ notifications = <<>>
    /\ inflight = EmptyBag
    /\ nops = 0
    /\ last = Returned("none", "none", NoRequest, NoTicket,
                       Tables(NoTicket, <<>>, <<>>), NoEngine, FALSE, "no")
    /\ \E process_id \in ProcessIds :
          \E node \in EngineNodes(process_id), start \in StartMasks(process_id) :
             drain = LegacyAdvancement(process_id, node, start)

\* let result = execute_user_request(ticket, request.node)?;
\* node_queue.extend(result.completable_steps.iter());
legacy_user_step ==
    /\ drain.phase = "request"
    /\ \E result \in {legacy_execute_user_request(StepsOf(drain.process_id),
                                                   drain.complete, drain.node)} :
          drain' = [drain EXCEPT !.phase = "drain",
                                 !.complete = result.complete,
                                 !.node_queue = result.completable_steps,
                                 !.err = result.err]
    /\ UNCHANGED <<tickets, user_active_tickets, notifications, inflight, nops, last,
                   asked>>

\* while let Some(node) = node_queue.pop_front() { .. }: one turn; an Err
\* leaves through `?` and the ticket_queue is dropped
legacy_drain_turn ==
    /\ drain.phase = "drain" /\ drain.err = "Ok" /\ drain.node_queue # <<>>
    /\ \E result \in {legacy_execute_completable(StepsOf(drain.process_id),
                                                  drain.complete,
                                                  Head(drain.node_queue))} :
          drain' = [drain EXCEPT !.complete = result.complete,
                                 !.node_queue = Tail(@) \o result.completable_steps,
                                 !.ticket_queue = IF result.err = "Ok"
                                                  THEN @ \o result.new_ticket
                                                  ELSE <<>>,
                                 !.err = result.err]
    /\ UNCHANGED <<tickets, user_active_tickets, notifications, inflight, nops, last,
                   asked>>

LegacyNext == legacy_user_step \/ legacy_drain_turn

LegacySpec == LegacyInit /\ [][LegacyNext]_vars

(***************************************************************************)
(* Vocabulary of the properties.                                           *)
(***************************************************************************)
\* the steps of the process of the invocation that returned last
LastSteps == read_process_data(last.ticket.process_id).steps

LastNodes == 0 .. (Len(LastSteps) - 1)

\* the UserActions returned by the advancement of that invocation
LastActions == last.engine.ticket_queue

\* an advancement ran in that invocation and returned Ok
Advanced == last.engine.err = "Ok"

Count(seq, type_) == Cardinality({i \in 1 .. Len(seq) : seq[i].type_ = type_})

\* how often node occurs in a sequence of nodes
Times(seq, node) == Cardinality({i \in 1 .. Len(seq) : seq[i] = node})

AllInactive(rows) == \A i \in 1 .. Len(rows) : ~rows[i].active

\* the positions of the actions of one kind in the returned list, in order
Positions(type_) ==
    SelectSeq([i \in 1 .. Len(LastActions) |-> i],
              LAMBDA i : LastActions[i].type_ = type_)

\* the rows user_active_tickets held before the returned actions were
\* persisted: those of the store, and the owner's row for a create
RowsBefore == Len(last.before.uat) + (IF last.op = "create" THEN 1 ELSE 0)

\* the step of the originating node of that invocation
LastJob == StepAt(LastSteps, last.request.node)

\* the successors of node 0
InitiateNext == StepAt(LastSteps, 0).next

\* every successor of node 0 is an Approve node that requires node 0 only
StagesApprovals ==
    /\ InitiateNext # <<>>
    /\ \A i \in 1 .. Len(InitiateNext) :
          /\ StepAt(LastSteps, InitiateNext[i]).event = "Approve"
          /\ StepAt(LastSteps, InitiateNext[i]).required = {0}

\* the nodes whose callbacks were handed to send_task by execute_completable:
\* those sent after the dispatch of the originating node on the user path
AutoSent ==
    IF last.engine.sent # <<>> /\ LastJob.event # "BlockingTask" /\ LastJob.callbacks
    THEN Tail(last.engine.sent)
    ELSE last.engine.sent

\* a Completion follows position i in the returned list
CompletionAfter(i) ==
    \E k \in (i + 1) .. Len(LastActions) : LastActions[k].type_ = "Completion"

(***************************************************************************)
(* C1: in the list of UserActions returned by an advancement, an action of *)
(* kind Completion is the last element: nothing follows it.                *)
(***************************************************************************)
C1_CompletionIsLast ==
    Advanced =>
        \A i \in 1 .. Len(LastActions) :
            LastActions[i].type_ = "Completion" => i = Len(LastActions)

(***************************************************************************)
(* C2: the persisted status of a ticket only moves open -> closed or       *)
(* open -> rejected: once closed or rejected, no step changes it.          *)
(***************************************************************************)
C2_StatusMonotone ==
    [][/\ tickets.status \in {"closed", "rejected"} => tickets'.status = tickets.status
       /\ tickets.status = "open" => tickets'.status \in {"open", "closed", "rejected"}]_vars

(***************************************************************************)
(* C3: a create or update that fails at any step leaves the three tables   *)
(* as they were; one that commits has persisted all its effects: one row   *)
(* per ApproveRequest, one notification per Notify, the closing of a       *)
(* Completion, and the mask and state the handler computed.                *)
(***************************************************************************)
C3_Atomic ==
    /\ ~last.committed => Committed = last.before
    /\ (last.committed /\ Advanced) =>
          /\ Len(user_active_tickets) =
                Len(last.before.uat) + Count(LastActions, "ApproveRequest")
                + (IF last.op = "create" THEN 1 ELSE 0)
          /\ Len(notifications) =
                Len(last.before.notifs) + Count(LastActions, "Notify")
          /\ tickets.complete = last.engine.complete
          /\ tickets.state = IF last.op = "create" THEN InitialState(last.request.data)
                             ELSE MergeState(last.ticket.state, last.request.data)
          /\ Count(LastActions, "Completion") > 0 => tickets.status = "closed"

\* a handler failed after its advancement had returned actions to persist
C3_Witness ==
    /\ last.op = "update" /\ ~last.committed
    /\ Advanced /\ LastActions # <<>>

(***************************************************************************)
(* C4: a committed accepted update computed its advancement from the       *)
(* ticket as committed when it wrote (so it saw the update that committed  *)
(* before it), and the mask it persists keeps every bit that was already   *)
(* persisted.                                                              *)
(***************************************************************************)
C4_Serialized ==
    (last.op = "update" /\ last.committed /\ last.request.status) =>
        /\ last.ticket.complete = last.before.ticket.complete
        /\ \A k \in LastNodes :
              IsSet(last.before.ticket.complete, k) => IsSet(tickets.complete, k)

C6_RejectPath ==
    (last.op = "update" /\ last.committed /\ ~last.request.status
     /\ last.ticket.status = "open") =>
        /\ tickets.status = "rejected"
        /\ AllInactive(user_active_tickets)
        /\ last.engine = NoEngine
        /\ Len(user_active_tickets) = Len(last.before.uat)
        /\ notifications = last.before.notifs
        /\ tickets.complete = last.before.ticket.complete
        /\ tickets.state = last.before.ticket.state

\* a rejection committed while another user's row was still active
C6_Witness ==
    /\ last.op = "update" /\ last.committed /\ ~last.request.status
    /\ last.ticket.status = "open"
    /\ \E i \in 1 .. Len(last.before.uat) :
          /\ last.before.uat[i].active
          /\ last.before.uat[i].userid # last.request.user_id

(***************************************************************************)
(* C7: after a successful advancement the bit of the originating node is   *)
(* set (its event being Initiate, Approve or BlockingTask), the bit of     *)
(* every auto-fired Notify or NonBlockingTask node is set, and every bit   *)
(* set before is still set; a commit persists that mask.                   *)
(***************************************************************************)
C7_BitsSet ==
    Advanced =>
        /\ IsSet(last.engine.complete, last.request.node)
        /\ StepAt(LastSteps, last.request.node).event
              \in {"Initiate", "Approve", "BlockingTask"}
        /\ \A i \in 1 .. Len(last.engine.fired) :
              StepAt(LastSteps, last.engine.fired[i]).event
                    \in {"Notify", "NonBlockingTask"}
                 => IsSet(last.engine.complete, last.engine.fired[i])
        /\ \A k \in LastNodes :
              IsSet(last.ticket.complete, k) => IsSet(last.engine.complete, k)
        /\ last.committed => tickets.complete = last.engine.complete

\* a committed advancement that started at a BlockingTask node with earlier
\* bits set and auto-fired a Notify node
C7_Witness ==
    /\ Advanced /\ last.committed
    /\ StepAt(LastSteps, last.request.node).event = "BlockingTask"
    /\ last.ticket.complete > 1
    /\ \E i \in 1 .. Len(last.engine.fired) :
          StepAt(LastSteps, last.engine.fired[i]).event = "Notify"

(***************************************************************************)
(* C8: the bit of an Approve or BlockingTask node becomes set only in an   *)
(* advancement whose originating node is that node, and the bit of a       *)
(* Complete node is never set, neither in the engine nor in the store.     *)
(***************************************************************************)
C8_AutoNeverSets ==
    /\ \A k \in LastNodes :
          StepAt(LastSteps, k).event = "Complete" =>
             /\ ~IsSet(last.engine.complete, k)
             /\ tickets.exists => ~IsSet(tickets.complete, k)
    /\ Advanced =>
          \A k \in LastNodes :
             (/\ StepAt(LastSteps, k).event \in {"Approve", "BlockingTask"}
              /\ IsSet(last.engine.complete, k)
              /\ ~IsSet(last.ticket.complete, k))
             => k = last.request.node

\* an advancement that started at an Approve node auto-fired another Approve
\* node, whose bit stays unset
C8_Witness ==
    /\ Advanced /\ last.committed
    /\ StepAt(LastSteps, last.request.node).event = "Approve"
    /\ \E i \in 1 .. Len(last.engine.fired) :
          /\ StepAt(LastSteps, last.engine.fired[i]).event = "Approve"
          /\ ~IsSet(last.engine.complete, last.engine.fired[i])

(***************************************************************************)
(* C9: every node put on the pending queue satisfies its gate when it is   *)
(* enqueued: a non-Complete node has all its required bits set, a Complete *)
(* node has the bits of all other nodes of the graph set.                  *)
(***************************************************************************)
C9_EnqueueGate ==
    \A i \in 1 .. Len(last.engine.enq) :
        LET e == last.engine.enq[i]
        IN  IF StepAt(LastSteps, e.node).event = "Complete"
            THEN \A k \in LastNodes \ {e.node} : IsSet(e.complete, k)
            ELSE \A r \in StepAt(LastSteps, e.node).required : IsSet(e.complete, r)

\* an advancement enqueued a Complete node and a node with two prerequisites
C9_Witness ==
    /\ \E i \in 1 .. Len(last.engine.enq) :
          StepAt(LastSteps, last.engine.enq[i].node).event = "Complete"
    /\ \E i \in 1 .. Len(last.engine.enq) :
          Cardinality(StepAt(LastSteps, last.engine.enq[i].node).required) = 2

(***************************************************************************)
(* C10: an advancement returns at most one action of kind Completion.      *)
(***************************************************************************)
C10_OneCompletion ==
    Advanced => Count(LastActions, "Completion") <= 1

(***************************************************************************)
(* C11: once the actions of an advancement are persisted, the table        *)
(* user_active_tickets holds an active row of the targeted user at the     *)
(* action's node for every ApproveRequest and every Notify action, one row *)
(* per action, unless a Completion was persisted, after which no row of    *)
(* the ticket is active.                                                   *)
(***************************************************************************)
C11_RoundTrip ==
    (last.committed /\ Advanced) =>
        IF Count(LastActions, "Completion") > 0
        THEN AllInactive(user_active_tickets)
        ELSE /\ Len(user_active_tickets) = RowsBefore + Len(LastActions)
             /\ \A i \in 1 .. Len(LastActions) :
                   \E j \in 1 .. Len(user_active_tickets) :
                      /\ user_active_tickets[j].active
                      /\ user_active_tickets[j].userid = LastActions[i].username
                      /\ user_active_tickets[j].node_number = LastActions[i].node

(***************************************************************************)
(* C11, amended: persisting the actions appends to user_active_tickets one *)
(* row of type approve per ApproveRequest, in order, for the targeted user *)
(* at the action's node, active unless a Completion follows the action in  *)
(* the list; a Notify appends no such row but one row to notifications for *)
(* its target; a Completion leaves every earlier row inactive.             *)
(***************************************************************************)
C11_RowsPerApproveRequest ==
    (last.committed /\ Advanced) =>
        /\ Len(user_active_tickets) = RowsBefore + Len(Positions("ApproveRequest"))
        /\ \A j \in 1 .. Len(Positions("ApproveRequest")) :
              LET a == LastActions[Positions("ApproveRequest")[j]]
                  row == user_active_tickets[RowsBefore + j]
              IN  /\ row.userid = a.username
                  /\ row.node_number = a.node
                  /\ row.type_ = "approve"
                  /\ row.active = ~CompletionAfter(Positions("ApproveRequest")[j])
        /\ Len(notifications) = Len(last.before.notifs) + Len(Positions("Notify"))
        /\ \A j \in 1 .. Len(Positions("Notify")) :
              notifications[Len(last.before.notifs) + j]
                 = LastActions[Positions("Notify")[j]].username
        /\ Count(LastActions, "Completion") > 0 =>
              \A i \in 1 .. RowsBefore : ~user_active_tickets[i].active

\* a committed advancement that returned a Notify and an ApproveRequest
C11_Witness ==
    /\ last.committed /\ Advanced
    /\ Count(LastActions, "Notify") > 0
    /\ Count(LastActions, "ApproveRequest") > 0

(***************************************************************************)
(* C13: for the process initiate_test, Initiate(0) -> Complete(1), firing  *)
(* node 0 on a fresh ticket (mask 0) ends with mask 1, the bit of the      *)
(* Complete node unset, returns exactly one action, a Completion, and the  *)
(* persisted ticket is closed with mask 1.                                 *)
(***************************************************************************)
C13_TwoNodeProcess ==
    (/\ last.op = "create" /\ last.ticket.process_id = "initiate_test"
     /\ last.engine.err # "NotRun") =>
        /\ Advanced
        /\ last.engine.complete = 1
        /\ ~IsSet(last.engine.complete, 1)
        /\ LastActions = <<NewUserTicket("Completion", 1, NoUser)>>
        /\ last.committed => (tickets.status = "closed" /\ tickets.complete = 1)

\* a ticket of initiate_test was created and committed
C13_Witness ==
    /\ last.op = "create" /\ last.ticket.process_id = "initiate_test"
    /\ last.committed /\ tickets.exists

(***************************************************************************)
(* C14: when an accepted approval sets the last missing bit of the nodes   *)
(* other than Complete and the approved node has a Complete successor, the *)
(* advancement returns exactly one action, a Completion, and sets only the *)
(* bit of the approved node.                                               *)
(***************************************************************************)
C14_LastApproval ==
    (/\ last.op = "update" /\ Advanced
     /\ LastJob.event = "Approve"
     /\ ~IsSet(last.ticket.complete, last.request.node)
     /\ \A k \in LastNodes :
           StepAt(LastSteps, k).event # "Complete"
              => IsSet(SetBit(last.ticket.complete, last.request.node), k)
     /\ \E i \in 1 .. Len(LastJob.next) :
           StepAt(LastSteps, LastJob.next[i]).event = "Complete")
    => /\ Len(LastActions) = 1
       /\ LastActions[1].type_ = "Completion"
       /\ last.engine.complete = SetBit(last.ticket.complete, last.request.node)

(***************************************************************************)
(* C15: firing Initiate (node 0) on a fresh ticket whose successors are    *)
(* Approve nodes requiring node 0 only leaves mask 1 and returns one       *)
(* ApproveRequest per successor, in the order of `next`, each with the     *)
(* successor's node and the username args[0] of its step; approving one of *)
(* two such parallel branches right after sets only the bit of that node,  *)
(* and in simple_branch_test the approval of node 2 on mask 3 gives mask 7 *)
(* and one ApproveRequest, for the join node 3 and erp_admin.              *)
(***************************************************************************)
C15_ApprovalsStaged ==
    /\ (/\ Advanced /\ LastJob.event = "Initiate" /\ last.ticket.complete = 0
         /\ StagesApprovals)
        => /\ last.engine.complete = 1
           /\ LastActions =
                 [i \in 1 .. Len(InitiateNext) |->
                    NewUserTicket("ApproveRequest", InitiateNext[i],
                                  StepAt(LastSteps, InitiateNext[i]).args)]
    /\ (/\ last.op = "update" /\ Advanced /\ last.ticket.complete = 1
         /\ StagesApprovals /\ Len(InitiateNext) = 2
         /\ \E i \in 1 .. 2 : InitiateNext[i] = last.request.node)
        => /\ last.engine.complete = 1 + Pow2(last.request.node)
           /\ LastActions = <<>>
    /\ (/\ last.op = "update" /\ Advanced
         /\ last.ticket.process_id = "simple_branch_test"
         /\ last.ticket.complete = 3 /\ last.request.node = 2)
        => /\ last.engine.complete = 7
           /\ LastActions = <<NewUserTicket("ApproveRequest", 3, "erp_admin")>>

\* two ApproveRequests were staged by the create, and one of the two
\* branches was approved on mask 1
C15_Witness ==
    /\ last.op = "update" /\ Advanced /\ last.committed
    /\ last.ticket.complete = 1
    /\ StagesApprovals /\ Len(InitiateNext) = 2
    /\ \E i \in 1 .. 2 : InitiateNext[i] = last.request.node
    /\ \A i \in 1 .. 2 :
          \E j \in 1 .. Len(user_active_tickets) :
             /\ user_active_tickets[j].node_number = InitiateNext[i]
             /\ user_active_tickets[j].type_ = "approve"

(***************************************************************************)
(* C16: an update whose originating node has event Notify, NonBlockingTask *)
(* or Complete makes the user path return the error InvalidTicket, whether *)
(* or not the step declares args; the mask stays as loaded and no action   *)
(* is returned.                                                            *)
(***************************************************************************)
C16_NonUserEvents ==
    (/\ last.op = "update" /\ last.engine.err # "NotRun"
     /\ last.request.node \in LastNodes
     /\ LastJob.event \in {"Notify", "NonBlockingTask", "Complete"})
    => /\ last.engine.err = "InvalidTicket"
       /\ last.engine.complete = last.ticket.complete
       /\ LastActions = <<>>

(***************************************************************************)
(* C17: an invocation whose advancement fails with InvalidTicket (the      *)
(* originating node is not user-triggerable) is answered 403 FORBIDDEN;    *)
(* one whose advancement fails with any other engine error is answered 500.*)
(***************************************************************************)
C17_ErrorCodes ==
    /\ last.engine.err = "InvalidTicket" => last.code = "FORBIDDEN"
    /\ last.engine.err \in {"InvalidEvent", "FailedToReadProcessData"}
          => last.code = "INTERNAL_SERVER_ERROR"

(***************************************************************************)
(* C18: on the user path the callbacks of the originating node are         *)
(* dispatched only after its event branch succeeded: an update that the    *)
(* user path rejects with InvalidTicket (a Notify, NonBlockingTask or      *)
(* Complete node) dispatches no callback, whatever callbacks the node has. *)
(***************************************************************************)
C18_NoDispatchOnReject ==
    (last.op = "update" /\ last.engine.err = "InvalidTicket")
        => last.engine.sent = <<>>

(***************************************************************************)
(* C19: the callbacks of a BlockingTask node are dispatched each time the  *)
(* node is auto-fired and not when an update re-enters with that node as   *)
(* its originating node; a successor that requires the BlockingTask node   *)
(* is enqueued by that re-entry, never by the auto-firing of the node.     *)
(***************************************************************************)
C19_BlockingTask ==
    /\ \A b \in LastNodes :
          (StepAt(LastSteps, b).event = "BlockingTask" /\ StepAt(LastSteps, b).callbacks)
             => Times(last.engine.sent, b) = Times(last.engine.fired, b)
    /\ \A i \in 1 .. Len(last.engine.enq) :
          LET e == last.engine.enq[i]
          IN  (StepAt(LastSteps, e.by).event = "BlockingTask"
               /\ e.by \in StepAt(LastSteps, e.node).required)
              => ~e.auto

(***************************************************************************)
(* C20: on the auto path callbacks are dispatched for NonBlockingTask and  *)
(* BlockingTask nodes only: an auto-fired Approve, Notify or Complete node *)
(* dispatches nothing, whatever callbacks it has.                          *)
(***************************************************************************)
C20_AutoDispatchTasksOnly ==
    \A i \in 1 .. Len(AutoSent) :
        StepAt(LastSteps, AutoSent[i]).event \in {"NonBlockingTask", "BlockingTask"}

(***************************************************************************)
(* C20, amended: on the auto path the callbacks of every fired node that   *)
(* has callbacks are dispatched, in firing order, unless the node is an    *)
(* Approve node: only an auto-fired Approve node dispatches nothing.       *)
(***************************************************************************)
C20_AutoDispatchButApprove ==
    AutoSent = SelectSeq(last.engine.fired,
                         LAMBDA n : /\ StepAt(LastSteps, n).callbacks
                                    /\ StepAt(LastSteps, n).event # "Approve")

\* an auto-fired Notify node with callbacks had them dispatched
C20_Witness ==
    \E i \in 1 .. Len(last.engine.fired) :
        /\ StepAt(LastSteps, last.engine.fired[i]).event = "Notify"
        /\ StepAt(LastSteps, last.engine.fired[i]).callbacks
        /\ Times(AutoSent, last.engine.fired[i]) > 0

(***************************************************************************)
(* C21: every committed advancement, of a create or of an update, that     *)
(* persisted a Notify action is followed after its commit by a CollectNew  *)
(* ping to the notifier (whether or not the ping got through).             *)
(***************************************************************************)
C21_NotifyPinged ==
    (last.committed /\ Advanced /\ Count(LastActions, "Notify") > 0)
        => last.pinged \in {"ok", "failed"}

(***************************************************************************)
(* C22: create_ticket pings the notifier only once its transaction has     *)
(* committed, and a ping that fails changes nothing: the answer is still   *)
(* CREATED and the tables hold what the create without the failure wrote.  *)
(***************************************************************************)
C22_PingAfterCommit ==
    last.op = "create" =>
        /\ last.pinged # "no" <=> last.committed
        /\ last.pinged = "failed" =>
              /\ last.code = "CREATED"
              /\ Committed = create_ticket(last.before, last.ticket.process_id,
                                           last.request, "none").tables

\* a create committed a Notify row and its ping failed
C22_Witness ==
    /\ last.op = "create" /\ last.pinged = "failed"
    /\ last.code = "CREATED" /\ tickets.exists
    /\ Len(notifications) > 0

(***************************************************************************)
(* C23: callback dispatch is not tied to the transaction outcome: the      *)
(* callbacks handed to send_task by an invocation are those its engine run *)
(* dispatched, whether or not the transaction then commits, so that an     *)
(* execution is reachable (C23_Witness) in which a callback was dispatched *)
(* and nothing became durable.                                             *)
(***************************************************************************)
C23_DispatchNotTransactional ==
    (last.op \in {"create", "update"} /\ last.engine.err # "NotRun") =>
        last.engine.sent = update_internal(last.ticket.process_id,
                                           last.ticket.complete,
                                           last.request.node).sent

\* an update dispatched a callback and then did not commit: the tables are
\* those from before it
C23_Witness ==
    /\ last.op = "update" /\ last.engine.sent # <<>>
    /\ ~last.committed /\ last.code = "INTERNAL_SERVER_ERROR"
    /\ Committed = last.before

(***************************************************************************)
(* C24: when the user path fires an Initiate node that has no successors   *)
(* and the invocation commits, the ticket is persisted as closed.          *)
(***************************************************************************)
C24_InitiateAloneCloses ==
    (last.committed /\ Advanced /\ LastJob.event = "Initiate"
        /\ LastJob.next = <<>>)
        => tickets.status = "closed"

(***************************************************************************)
(* C25: a committed accepted update by user u at node k that closes        *)
(* nothing deactivates only u's row for node k: every other active row,    *)
(* among them an approval of another node still pending for u, stays       *)
(* active.                                                                 *)
(***************************************************************************)
C25_DeactivatesOwnRowOnly ==
    (last.op = "update" /\ last.committed /\ last.request.status
        /\ Count(LastActions, "Completion") = 0)
        => \A i \in 1 .. Len(last.before.uat) :
              (/\ last.before.uat[i].active
               /\ ~(/\ last.before.uat[i].userid = last.request.user_id
                    /\ last.before.uat[i].node_number = last.request.node))
                  => user_active_tickets[i].active

(***************************************************************************)
(* C26: within one advancement the nodes are auto-fired in the order in    *)
(* which they were enqueued (first in, first out), the successors a firing *)
(* enqueues keep the order of its next list, and the returned actions are  *)
(* those of the fired nodes in firing order.                               *)
(***************************************************************************)
\* the first position of node in a next list
IndexIn(next, node) ==
    CHOOSE i \in 1 .. Len(next) :
        next[i] = node /\ \A j \in 1 .. (i - 1) : next[j] # node

\* the events whose auto-firing returns a new user ticket
Emits(node) == StepAt(LastSteps, node).event \in {"Approve", "Notify", "Complete"}

C26_BreadthFirst ==
    Advanced =>
        LET enq == last.engine.enq
            fired == last.engine.fired
        IN  /\ fired = [i \in 1 .. Len(enq) |-> enq[i].node]
            /\ \A i \in 1 .. Len(enq) :
                  /\ enq[i].turn < i
                  /\ enq[i].by = IF enq[i].turn = 0 THEN last.request.node
                                 ELSE fired[enq[i].turn]
                  /\ enq[i].node \in
                        {StepAt(LastSteps, enq[i].by).next[k] :
                            k \in 1 .. Len(StepAt(LastSteps, enq[i].by).next)}
            /\ \A i \in 1 .. (Len(enq) - 1) :
                  /\ enq[i].turn <= enq[i + 1].turn
                  /\ enq[i].turn = enq[i + 1].turn =>
                        IndexIn(StepAt(LastSteps, enq[i].by).next, enq[i].node)
                        < IndexIn(StepAt(LastSteps, enq[i].by).next, enq[i + 1].node)
            /\ [i \in 1 .. Len(LastActions) |-> LastActions[i].node]
                  = SelectSeq(fired, Emits)

\* two nodes were seeded, and a node fired after both enqueued two more: the
\* traversal went across before it went down
C26_Witness ==
    /\ Advanced /\ last.committed
    /\ \E i \in 1 .. (Len(last.engine.enq) - 3) :
          /\ last.engine.enq[i].turn = 0 /\ last.engine.enq[i + 1].turn = 0
          /\ last.engine.enq[i + 2].turn = 2 /\ last.engine.enq[i + 3].turn = 2
    /\ Len(LastActions) >= 3

(***************************************************************************)
(* C27: for every process graph that is acyclic when its edges are read as *)
(* required -> dependent, from every starting mask and every originating   *)
(* node, the drain loop ends: the pending queue becomes empty (or a step   *)
(* fails) after finitely many turns and update_internal returns.           *)
(***************************************************************************)
\* the nodes a set of nodes requires, directly or through k more levels
RECURSIVE Upstream(_, _, _)
Upstream(steps, nodes, k) ==
    IF k = 0 THEN nodes
    ELSE Upstream(steps,
                  nodes \cup UNION {StepAt(steps, d).required : d \in nodes},
                  k - 1)

\* no node requires itself, directly or indirectly
RequiredAcyclic(steps) ==
    \A d \in 0 .. (Len(steps) - 1) :
        d \notin Upstream(steps, StepAt(steps, d).required, Len(steps))

\* update_internal has returned
DrainReturned ==
    drain.phase = "drain" /\ (drain.node_queue = <<>> \/ drain.err # "Ok")

C28_StateOverlay ==
    (last.committed /\ last.request.status) =>
        LET data == last.request.data
        IN  IF last.op = "create"
            THEN \A k \in Keys :
                    tickets.state[k] = IF data.some THEN data.map[k] ELSE Absent
            ELSE /\ \A k \in Keys :
                       tickets.state[k] =
                           IF data.some /\ data.map[k] # Absent
                           THEN data.map[k] ELSE last.ticket.state[k]
                 /\ MergeState(tickets.state, data) = tickets.state

\* an update overwrote one key of the state and kept the other
C28_Witness ==
    /\ last.op = "update" /\ last.committed /\ last.request.status
    /\ last.request.data.some
    /\ \E k \in Keys :
          /\ last.request.data.map[k] # Absent
          /\ last.ticket.state[k] \notin {Absent, last.request.data.map[k]}
          /\ tickets.state[k] = last.request.data.map[k]
    /\ \E k \in Keys :
          /\ last.request.data.map[k] = Absent
          /\ last.ticket.state[k] # Absent
          /\ tickets.state[k] = last.ticket.state[k]

(***************************************************************************)
(* C29: for a process of at most 31 steps the mask stays a non-negative    *)
(* i32 in which bit k is set only for a node k of the process, the         *)
(* originating node's own bit among them, and 1 << node never overflows or *)
(* wraps; a 32nd step has no such bit: setting the bit of node 31 makes    *)
(* the mask negative, and for node 32 or more the shift overflows (a panic *)
(* or, wrapped, the bit of node - 32).                                     *)
(***************************************************************************)
C29_MaskFitsI32 ==
    drain.phase = "drain" =>
        LET steps == StepsOf(drain.process_id)
            sets == UserSetsBit(StepAt(steps, drain.node).event)
        IN  /\ Len(steps) <= 31 =>
                  /\ drain.complete >= 0 /\ drain.complete <= MaxI32
                  /\ ~ShiftOverflows(drain.node)
                  /\ \A k \in 0 .. 31 :
                        /\ IsSet(drain.complete, k) => k < Len(steps)
                        /\ IsSet(drain.start, k) => IsSet(drain.complete, k)
                  /\ sets => IsSet(drain.complete, drain.node)
                  /\ (sets /\ drain.process_id \in WideProcessIds) =>
                        drain.complete - drain.start \in {0, Pow2(drain.node)}
            /\ (sets /\ drain.node = 31) => drain.complete < 0
            /\ (sets /\ drain.node >= 32) =>
                  /\ ShiftOverflows(drain.node)
                  /\ \/ drain.err = "Panic"
                     \/ drain.complete = SetBit(drain.start, drain.node - 32)

\* the highest bit a non-negative mask has was set for node 30 of a process
\* of 31 steps
C29_Witness ==
    /\ drain.phase = "drain" /\ drain.process_id = "wide_31"
    /\ drain.node = 30 /\ drain.start = 1 /\ drain.err = "Ok"
    /\ drain.complete = 1 + Pow2(30)

(***************************************************************************)
(* C30: a ticket persisted as closed has the bit of every node of its      *)
(* process that is not a Complete node set, and an advancement that        *)
(* returned a Completion action ended with all those bits set.             *)
(***************************************************************************)
\* the Initiate, Approve, Notify and task nodes of a process
WorkNodes(steps) ==
    {k \in 0 .. (Len(steps) - 1) : StepAt(steps, k).event # "Complete"}

C30_ClosedIsComplete ==
    /\ tickets.status = "closed" =>
          \A k \in WorkNodes(StepsOf(tickets.process_id)) :
              IsSet(tickets.complete, k)
    /\ (Advanced /\ Count(LastActions, "Completion") > 0) =>
          \A k \in WorkNodes(LastSteps) : IsSet(last.engine.complete, k)

\* a ticket with two approvals and a notification was closed by the update
\* that gave the second approval
C30_Witness ==
    /\ tickets.status = "closed" /\ tickets.process_id = "mixed_branch"
    /\ last.op = "update" /\ last.committed
    /\ Count(LastActions, "Completion") > 0
    /\ tickets.complete = last.engine.complete

(***************************************************************************)
(* C31: a ticket persisted as closed or rejected has no active row in      *)
(* user_active_tickets: after a rejection or a Completion nothing inserts  *)
(* or re-activates a row for it.                                           *)
(***************************************************************************)
C31_TerminalHasNoActiveRow ==
    tickets.status \in {"closed", "rejected"} => AllInactive(user_active_tickets)

(***************************************************************************)
(* C32: in every persisted state each set bit k of ticket.complete has the *)
(* bit of every node in steps[k].required set as well: no node is          *)
(* completed before its prerequisites.                                     *)
(***************************************************************************)
C32_RequiredBeforeBit ==
    tickets.exists =>
        \A k \in 0 .. (Len(StepsOf(tickets.process_id)) - 1) :
            IsSet(tickets.complete, k) =>
                check_required_complete(tickets.complete,
                    StepAt(StepsOf(tickets.process_id), k).required)

(***************************************************************************)
(* C33: during one advancement no node is auto-fired more than once: the   *)
(* result holds at most one action per node and the callbacks of a node    *)
(* are dispatched at most once, also when the node is in the next lists of *)
(* several nodes fired in that advancement.                                *)
(***************************************************************************)
C33_FiredOnce ==
    Advanced =>
        \A node \in LastNodes :
            /\ Times(last.engine.fired, node) <= 1
            /\ Times([i \in 1 .. Len(LastActions) |-> LastActions[i].node], node) <= 1
            /\ Times(last.engine.sent, node) <= 1

(***************************************************************************)
(* C34: an accepted update at a node whose bit is already set leaves the   *)
(* mask as it was and returns no action.                                   *)
(***************************************************************************)
C34_Resubmission ==
    (last.op = "update" /\ last.request.status /\ Advanced
        /\ IsSet(last.ticket.complete, last.request.node))
        => /\ last.engine.complete = last.ticket.complete
           /\ LastActions = <<>>

(***************************************************************************)
(* C35: the persisted mask of a ticket is monotone: a bit set in one       *)
(* committed state is set in every later committed state, whatever the     *)
(* interleaving of the committed operations.                               *)
(***************************************************************************)
C35_MaskMonotone ==
    [][\A k \in 0 .. 31 : IsSet(tickets.complete, k) => IsSet(tickets'.complete, k)]_vars

(***************************************************************************)
(* C36: for a well-formed process, when every ApproveRequest emitted is    *)
(* answered by an accepted update at its node and the callbacks of every   *)
(* auto-fired BlockingTask node come back at that node, the ticket is      *)
(* eventually closed, in whatever order parallel branches are completed.   *)
(***************************************************************************)
C36_Progress == <>(tickets.status = "closed")


\* C37: an accepted update whose node index lies outside the ticket's graph,
\* a negative one included, is answered with an error and persists nothing:
\* the handler does not crash on the steps lookup or on the shift
C37_StrayNodeRefused ==
    (last.op = "update" /\ last.request.status /\ last.ticket.exists
        /\ OutOfBounds(LastSteps, last.request.node))
        => /\ last.code \in {"INTERNAL_SERVER_ERROR", "FORBIDDEN"}
           /\ ~last.committed /\ Committed = last.before
           /\ last.engine.err # "Panic"


(***************************************************************************)
(* C38: in the engine of src/backend/src/ticket.rs a Complete node fired   *)
(* by the loop sets its own bit: the advancement of initiate_test from     *)
(* mask 0 at node 0 returns with mask 3, the one of approve_test from mask *)
(* 1 at node 1 returns with mask 7 and exactly one action, a Completion.   *)
(***************************************************************************)
\* update_internal returned
LegacyReturned ==
    drain.phase = "drain" /\ (drain.node_queue = <<>> \/ drain.err # "Ok")

C38_LegacyCompleteSetsBit ==
    LegacyReturned =>
        /\ \A i \in 1 .. Len(drain.ticket_queue) :
               drain.ticket_queue[i].type_ = "Completion"
                   => IsSet(drain.complete, drain.ticket_queue[i].node)
        /\ (drain.process_id = "initiate_test" /\ drain.start = 0 /\ drain.node = 0)
               => drain.err = "Ok" /\ drain.complete = 3
        /\ (drain.process_id = "approve_test" /\ drain.start = 1 /\ drain.node = 1)
               => /\ drain.err = "Ok" /\ drain.complete = 7
                  /\ Len(drain.ticket_queue) = 1
                  /\ drain.ticket_queue[1].type_ = "Completion"

\* the approval of approve_test returned with the Complete node's bit set
C38_Witness ==
    /\ LegacyReturned /\ drain.process_id = "approve_test"
    /\ drain.start = 1 /\ drain.node = 1
    /\ drain.complete = 7
    /\ drain.ticket_queue = <<NewUserTicket("Completion", 2, NoUser)>>

====
